---------------------------- MODULE Spec2Model ----------------------------
(* Authentication core of the Batcave Command Center server (server.py):  *)
(* credential store, token service, login rate limiter, access-control    *)
(* middleware and the /ws handshake guard.                                *)
(*                                                                        *)
(* Text values that the code strips (usernames, display names, the secret *)
(* file) are sequences of one-character strings; "" is <<>>.              *)
(* Time is in whole seconds since the epoch of the model (now = 0).       *)
EXTENDS Integers, Sequences, FiniteSets, TLC

VARIABLES
    now,            \* the wall clock read by time.time() / datetime.utcnow()
    secretFile,     \* contents of JWT_SECRET_FILE, or NoFile
    users,          \* rows of the users table, keyed by id
    seq,            \* sqlite_sequence value of the AUTOINCREMENT id column
    loginAttempts,  \* _login_attempts: ip -> <<count, first_attempt_time>>
    active,         \* manager.active
    ws,             \* per websocket: position of websocket_endpoint
    inflight,       \* requests suspended between two steps of their handling
    issued,         \* tokens handed out to clients by auth_login
    last,           \* the response (or forwarding) produced by the latest step
    usedSecrets,    \* every value _jwt_secret has returned
    log,            \* per ip: the login attempts seen by this process, in order
    bcryptBuild,    \* the installed bcrypt: what it does with an over-long password
    faults,         \* the persistent stores that cannot be read at the moment
    bcast           \* position and locals of a running manager.broadcast

vars == <<now, secretFile, users, seq, loginAttempts, active, ws, inflight,
          issued, last, usedSecrets, log, bcryptBuild, faults, bcast>>

--------------------------------------------------------------------------
(* Program constants *)

JWT_EXPIRY_DAYS == 7
SecondsPerDay == 86400
LOGIN_MAX_ATTEMPTS == 5
LOGIN_WINDOW_SECONDS == 300
WS_CLOSE_UNAUTHORIZED == 4001
BCRYPT_MAX == 72     \* bytes of a password that bcrypt hashes

TokenLifetime == JWT_EXPIRY_DAYS * SecondsPerDay

(* Bounds of the model *)

MaxSeq == 3          \* ids ever assigned by AUTOINCREMENT
MaxTarget == 2       \* ids that update and delete requests name
MaxIssued == 2       \* tokens handed out
MaxPending == 2      \* logins suspended at once where logins interleave
MaxInflight == 1     \* requests suspended at the same time
MaxLog == 7          \* login attempts in a process lifetime
MaxLogins == 2       \* ... where the rate limiter is not the subject
MaxLifetimes == 1    \* the clock runs to MaxLifetimes token lifetimes
MaxWindows == 1      \* ... or to MaxWindows rate-limit windows

--------------------------------------------------------------------------
(* Values *)

Whitespace == {" ", "\n"}

AdminName == <<"a", "d", "m", "i", "n">>
AdminDisplay == <<"A", "d", "m", "i", "n">>
DefaultPassword == <<"b", "a", "t">>

RECURSIVE lstrip(_)
lstrip(s) ==
    IF s # <<>> /\ Head(s) \in Whitespace THEN lstrip(Tail(s)) ELSE s

RECURSIVE rstrip(_)
rstrip(s) ==
    IF s # <<>> /\ s[Len(s)] \in Whitespace
    THEN rstrip(SubSeq(s, 1, Len(s) - 1))
    ELSE s

\* str.strip()
strip(s) == rstrip(lstrip(s))

\* A JSON body: the keys it has, and their values
Get(body, key, default) == IF key \in body.has THEN body[key] ELSE default

\* path.startswith(prefix) for a prefix that ends in "/": the path has the
\* prefix's segments and at least one more (possibly empty) segment
startswith(path, prefix) ==
    Len(path) > Len(prefix) /\ SubSeq(path, 1, Len(prefix)) = prefix

--------------------------------------------------------------------------
(* Token service *)

\* JWT_SECRET_FILE: whether it exists, and its text
NoFile == [exists |-> FALSE, text |-> <<>>]
File(text) == [exists |-> TRUE, text |-> text]

\* secrets.token_hex(32): two of its values
TokenHex == { <<"3", "f">>, <<"a", "0">> }

\* _jwt_secret(): the secret it returns and the file it leaves behind;
\* rnd is the value secrets.token_hex draws when it is called
jwt_secret_regenerates(file, rnd) == [secret |-> rnd, file |-> File(rnd)]

jwt_secret(file, rnd) ==
    IF file.exists
    THEN [secret |-> strip(file.text), file |-> file]
    ELSE [secret |-> rnd, file |-> File(rnd)]

\* What stands for the secret when JWT_SECRET_FILE.read_text() raises
Unreadable == <<"!">>

\* _jwt_secret() while the stores in flt cannot be read
read_secret(file, rnd, flt) ==
    IF "secret" \in flt /\ file.exists
    THEN [secret |-> Unreadable, file |-> file]
    ELSE jwt_secret(file, rnd)

\* HMAC-SHA256 of a payload under a key: equal exactly for equal key and payload
HS256(key, payload) == [key |-> key, over |-> payload]

\* Python None where claims are expected: no payload has user_id 0
None == [user_id |-> 0, username |-> <<>>, role |-> "None", exp |-> 0]

\* A token string that is not a JWT, and the empty string
Malformed == [kind |-> "garbage", payload |-> None, sig |-> HS256(<<>>, None)]
EmptyToken == [kind |-> "empty", payload |-> None, sig |-> HS256(<<>>, None)]

\* _make_token(uid, uname, role) at time t with the secret _jwt_secret() returned
make_token(uid, uname, role, t, secret) ==
    LET payload == [user_id |-> uid, username |-> uname, role |-> role,
                    exp |-> t + TokenLifetime]
    IN  [kind |-> "jwt", payload |-> payload, sig |-> HS256(secret, payload)]

\* _decode_token(tok) at time t with the secret _jwt_secret() returned:
\* pyjwt.decode raises (-> None) on a malformed token, on a signature mismatch
\* and on an expiry that is not in the future; _jwt_secret() is called inside
\* the same try, so its exception is turned into None as well
decode_token_no_expiry(tok, t, secret) ==
    IF secret = Unreadable THEN None
    ELSE IF tok.kind # "jwt" THEN None
    ELSE IF tok.sig # HS256(secret, tok.payload) THEN None
    ELSE tok.payload

decode_token(tok, t, secret) ==
    IF secret = Unreadable THEN None
    ELSE IF tok.kind # "jwt" THEN None
    ELSE IF tok.sig # HS256(secret, tok.payload) THEN None
    ELSE IF tok.payload.exp <= t THEN None
    ELSE tok.payload

\* The Authorization header: request.headers.get("Authorization", "") split
\* into its first seven characters and the rest
NoHeader == [scheme |-> "", token |-> EmptyToken]
Bearer(tok) == [scheme |-> "Bearer ", token |-> tok]
Basic(tok) == [scheme |-> "Basic  ", token |-> tok]

\* _current_user(request)
current_user(header, t, secret) ==
    IF header.scheme = "Bearer "
    THEN decode_token(header.token, t, secret)
    ELSE None

--------------------------------------------------------------------------
(* Credential store *)

\* bcrypt.gensalt(): two of its values
Salts == {"s1", "s2"}

\* The bytes of a password that bcrypt hashes
hashed_bytes(password) ==
    SubSeq(password, 1, IF Len(password) < BCRYPT_MAX THEN Len(password)
                        ELSE BCRYPT_MAX)

\* bcrypt.hashpw(password, salt): the salt and the digest of the salt and the
\* hashed bytes of the password
hashpw(password, salt) == [salt |-> salt, digest |-> hashed_bytes(password)]

\* hashpw and checkpw raise ValueError instead (bcrypt from 5.0)
too_long(password, build) == build = "raises" /\ Len(password) > BCRYPT_MAX

\* bcrypt.checkpw(password, hash): re-hash under the hash's salt and compare
checkpw(password, hash) == hashpw(password, hash.salt) = hash

NULL == 0 - 1     \* last_login of an account that never logged in

Row(username, hash, display, role, created) ==
    [username |-> username, password_hash |-> hash, display_name |-> display,
     role |-> role, created_at |-> created, last_login |-> NULL]

\* SELECT * FROM users WHERE username = ?
ByUsername(tbl, username) == {i \in DOMAIN tbl : tbl[i].username = username}

\* INSERT INTO users: sqlite3.IntegrityError when the username is taken
\* (username TEXT UNIQUE); the id is one more than every id ever assigned
\* (INTEGER PRIMARY KEY AUTOINCREMENT)
insert_no_unique(tbl, s, row) ==
    [ok |-> TRUE, users |-> ((s + 1) :> row) @@ tbl, seq |-> s + 1]

\* A variant with the id of a plain INTEGER PRIMARY KEY: one more than the
\* largest id in the table now
insert_reuses(tbl, s, row) ==
    IF ByUsername(tbl, row.username) # {}
    THEN [ok |-> FALSE, users |-> tbl, seq |-> s]
    ELSE LET m == IF DOMAIN tbl = {} THEN 0
                  ELSE CHOOSE i \in DOMAIN tbl : \A j \in DOMAIN tbl : j <= i
         IN  [ok |-> TRUE, users |-> ((m + 1) :> row) @@ tbl, seq |-> m + 1]

insert(tbl, s, row) ==
    IF ByUsername(tbl, row.username) # {}
    THEN [ok |-> FALSE, users |-> tbl, seq |-> s]
    ELSE [ok |-> TRUE, users |-> ((s + 1) :> row) @@ tbl, seq |-> s + 1]

\* _init_users_db(): the table it leaves behind; salt is the value
\* bcrypt.gensalt draws when it is called
init_users_db_resets_admin(tbl, s, salt, t) ==
    IF DOMAIN tbl = {}
    THEN insert(tbl, s, Row(AdminName, hashpw(DefaultPassword, salt),
                            AdminDisplay, "admin", t))
    ELSE [ok |-> TRUE, seq |-> s,
          users |-> [i \in DOMAIN tbl |->
                       IF tbl[i].username = AdminName
                       THEN [tbl[i] EXCEPT !.password_hash =
                                 hashpw(DefaultPassword, salt), !.role = "admin"]
                       ELSE tbl[i]]]

init_users_db(tbl, s, salt, t) ==
    IF Cardinality(DOMAIN tbl) = 0
    THEN insert(tbl, s, Row(AdminName, hashpw(DefaultPassword, salt),
                            AdminDisplay, "admin", t))
    ELSE [ok |-> TRUE, users |-> tbl, seq |-> s]

--------------------------------------------------------------------------
(* Access-control middleware *)

P_login == <<"api", "auth", "login">>
P_me == <<"api", "auth", "me">>
P_users == <<"api", "admin", "users">>
P_user(seg) == <<"api", "admin", "users", seg>>
P_labels == <<"api", "admin", "labels">>
P_weather == <<"api", "weather">>
P_admin_page == <<"admin">>
P_ws == <<"ws">>

OPEN_PATHS == { <<"login">>, <<"login.html">>, P_login, <<"favicon.ico">> }
OPEN_PREFIXES == { <<"static">>, <<"css">>, <<"js">>, <<"img">>, <<"fonts">> }

Forward(user) == [forward |-> TRUE, status |-> 0, user |-> user]
Reject(status) == [forward |-> FALSE, status |-> status, user |-> None]

IsOpen(path) ==
    path \in OPEN_PATHS \/ \E p \in OPEN_PREFIXES : startswith(path, p)

\* AuthMiddleware.dispatch reaches _current_user, and with a Bearer header
\* _decode_token and _jwt_secret
DispatchDecodes(path, header) ==
    /\ ~IsOpen(path)
    /\ path # P_ws
    /\ startswith(path, <<"api">>)
    /\ header.scheme = "Bearer "

\* AuthMiddleware.dispatch: forward to call_next, or answer 401 / 403
dispatch_no_auth(path, header, t, secret) ==
    Forward(current_user(header, t, secret))

dispatch_no_admin_check(path, header, t, secret) ==
    IF IsOpen(path) THEN Forward(None)
    ELSE IF path = P_ws THEN Forward(None)
    ELSE IF startswith(path, <<"api">>)
    THEN LET user == current_user(header, t, secret)
         IN  IF user = None THEN Reject(401) ELSE Forward(user)
    ELSE Forward(None)

dispatch(path, header, t, secret) ==
    IF IsOpen(path) THEN Forward(None)
    ELSE IF path = P_ws THEN Forward(None)
    ELSE IF startswith(path, <<"api">>)
    THEN LET user == current_user(header, t, secret)
         IN  IF user = None THEN Reject(401)
             ELSE IF startswith(path, <<"api", "admin">>) /\ user.role # "admin"
             THEN Reject(403)
             ELSE Forward(user)
    ELSE Forward(None)

--------------------------------------------------------------------------
(* Requests and responses *)

\* A JSON object: the keys it has, the values of those that are strings, and
\* the keys whose value is the number JsonNumber instead of a string
NoBody ==
    [json |-> TRUE, has |-> {}, nonstr |-> {}, username |-> <<>>,
     password |-> <<>>, display_name |-> <<>>, role |-> ""]
BadJson == [NoBody EXCEPT !.json = FALSE]
Body(has, username, password, display, role) ==
    [json |-> TRUE, has |-> has, nonstr |-> {}, username |-> username,
     password |-> password, display_name |-> display, role |-> role]
Numeric(body, keys) == [body EXCEPT !.nonstr = keys \cap body.has]

\* The text SQLite stores for JsonNumber in a TEXT column
JsonNumberText == <<"7">>

Request(method, path, header, body, ip) ==
    [method |-> method, path |-> path, header |-> header, body |-> body,
     ip |-> ip]
NoRequest == Request("", <<>>, NoHeader, NoBody, "")

\* user_id: int of the route /api/admin/users/{user_id}; 0 when the segment
\* is no decimal number (the router answers 422 and runs no handler)
path_int(seg) ==
    IF \E i \in 1..(MaxSeq + 1) : ToString(i) = seg
    THEN CHOOSE i \in 1..(MaxSeq + 1) : ToString(i) = seg
    ELSE 0

\* The route decorators: the handler the router runs for a method and path
route(method, path) ==
    IF method = "POST" /\ path = P_login THEN "auth_login"
    ELSE IF method = "GET" /\ path = P_me THEN "auth_me"
    ELSE IF method = "GET" /\ path = P_users THEN "admin_list_users"
    ELSE IF method = "POST" /\ path = P_users THEN "admin_create_user"
    ELSE IF method = "PUT" /\ Len(path) = 4 /\ SubSeq(path, 1, 3) = P_users
            /\ path_int(path[4]) # 0
    THEN "admin_update_user"
    ELSE IF method = "DELETE" /\ Len(path) = 4 /\ SubSeq(path, 1, 3) = P_users
            /\ path_int(path[4]) # 0
    THEN "admin_delete_user"
    ELSE IF method = "GET" /\ path = P_labels THEN "admin_get_labels"
    ELSE IF method = "GET" /\ path = P_weather THEN "weather"
    ELSE IF method = "GET" /\ path = P_admin_page THEN "admin_page"
    ELSE "none"

\* The body of a response: the fields of the user record and the token
NoData ==
    [id |-> 0, username |-> <<>>, display_name |-> <<>>, role |-> "",
     token |-> EmptyToken, error |-> ""]
UserData(id, row, token) ==
    [id |-> id, username |-> row.username, display_name |-> row.display_name,
     role |-> row.role, token |-> token, error |-> ""]

\* The error message in the body of an answer ("" when it has none); an
\* exception that no handler catches is answered by the server itself
error_text(handler, status) ==
    IF status = 500 THEN "Internal Server Error"
    ELSE IF handler = "dispatch" /\ status = 401 THEN "Unauthorized"
    ELSE IF handler = "dispatch" /\ status = 403 THEN "Forbidden"
    ELSE IF handler = "auth_login" /\ status = 429
    THEN "Too many attempts. Try again in 5 minutes."
    ELSE IF handler = "auth_login" /\ status = 400
    THEN "Username and password required"
    ELSE IF handler = "auth_login" /\ status = 401 THEN "Invalid credentials"
    ELSE IF handler = "auth_me" /\ status = 401 THEN "Unauthorized"
    ELSE IF handler = "auth_me" /\ status = 404 THEN "User not found"
    ELSE IF handler = "admin_create_user" /\ status = 400
    THEN "Username and password required"
    ELSE IF handler = "admin_create_user" /\ status = 409
    THEN "Username already exists"
    ELSE IF handler = "admin_update_user" /\ status = 404 THEN "User not found"
    ELSE IF handler = "admin_delete_user" /\ status = 400
    THEN "Cannot delete yourself"
    ELSE ""
ErrorData(handler, status) ==
    [NoData EXCEPT !.error = error_text(handler, status)]

\* What the latest step did: the request it served, whether the middleware
\* forwarded it, the handler that ran (if any), the status answered (0: none
\* yet), the claims the middleware verified and when
Outcome(step, req, forward, handler, status, user, at, data) ==
    [step |-> step, req |-> req, forward |-> forward, handler |-> handler,
     status |-> status, user |-> user, at |-> at, data |-> data]
Quiet(step) == Outcome(step, NoRequest, FALSE, "", 0, None, 0, NoData)

\* A request suspended after the middleware forwarded it (n: its place in
\* the login log, 0 for other routes)
Pending(req, user, at, n) == [req |-> req, user |-> user, at |-> at, n |-> n]

\* A key that no _jwt_secret call ever returns
AttackerKey == <<"e", "e">>

\* Tokens a client can present at time t: those it was handed, copies of them
\* with the role claim rewritten, tokens signed with another key, and garbage
Tampered(tok) == [tok EXCEPT !.payload.role = "admin"]
Forged(t) == make_token(1, AdminName, "admin", t, AttackerKey)
Presentable(t) ==
    issued \cup {Tampered(k) : k \in issued} \cup {Forged(t), Malformed}
Headers(t) ==
    {NoHeader} \cup {Bearer(k) : k \in Presentable(t)}
               \cup {Basic(k) : k \in {j \in issued : j.payload.role = "admin"}}

--------------------------------------------------------------------------
(* Initial state: the process is started for the first time on an empty   *)
(* data directory; startup() has run _init_users_db().                    *)

\* The salt drawn at the first start (the salts are interchangeable)
FirstSalt == {"s1"}

Ips == {"10.0.0.1", "10.0.0.2"}
Conns == {"w1", "w2"}

NoWs ==
    [state |-> "idle", token |-> EmptyToken, at |-> 0, code |-> 0, reason |-> "",
     pongs |-> 0]

\* A broadcast that is not running.  A running one holds the iterator over
\* the active set (used: the size of the set when the iterator was made,
\* snap: its members then, moved: the set was changed since, seen: the
\* connections yielded so far, cur: the one being sent to) and the loop's
\* locals (dead: sends that raised; ok: sends that returned)
NoCast ==
    [state |-> "idle", caller |-> "", used |-> 0, snap |-> {}, moved |-> FALSE,
     seen |-> {}, cur |-> "", dead |-> {}, ok |-> {}]

\* bcrypt.hashpw / checkpw given more than BCRYPT_MAX bytes: releases up to
\* 4.x hash the first BCRYPT_MAX bytes, releases from 5.0 raise ValueError
Builds == {"truncates", "raises"}

Boot(builds) ==
    /\ bcryptBuild \in builds
    /\ faults = {}
    /\ bcast = NoCast
    /\ now = 0
    /\ secretFile = NoFile
    /\ \E salt \in FirstSalt :
         LET db == init_users_db(<<>>, 0, salt, 0)
         IN  users = db.users /\ seq = db.seq
    /\ loginAttempts = <<>>
    /\ active = {}
    /\ ws = [c \in Conns |-> NoWs]
    /\ inflight = {}
    /\ issued = {}
    /\ last = Quiet("startup")
    /\ usedSecrets = {}
    /\ log = [ip \in Ips |-> <<>>]

\* No password of the requests below is over-long unless a specification
\* says so, and then it starts from either build (InitBuilds)
Init == Boot({"truncates"})

InitBuilds == Boot(Builds)

--------------------------------------------------------------------------
(* Steps of the program *)

\* A call of _jwt_secret() (when called holds): the file and the record of
\* returned values afterwards
SecretAfter(called, js) ==
    /\ secretFile' = IF called THEN js.file ELSE secretFile
    /\ usedSecrets' = IF called /\ js.secret # Unreadable
                      THEN usedSecrets \cup {js.secret}
                      ELSE usedSecrets

Remove(f, k) == [i \in DOMAIN f \ {k} |-> f[i]]

\* Handlers that neither read nor write the state modelled here: the
\* router's 404, the static pages and the read-only resources
ReadOnly ==
    {"none", "admin_list_users", "admin_get_labels", "weather", "admin_page"}

\* AuthMiddleware.dispatch on a request other than a login: answer 401 / 403,
\* or forward to the router. A read-only handler is run to its response; any
\* other handler is suspended before it runs
Dispatch_stored_role(req, rnd) ==
    LET js == read_secret(secretFile, rnd, faults)
        d0 == dispatch(req.path, req.header, now, js.secret)
        d == IF d0.forward /\ d0.user # None
                /\ startswith(req.path, <<"api", "admin">>)
                /\ d0.user.user_id \in DOMAIN users
                /\ users[d0.user.user_id].role # "admin"
             THEN Reject(403) ELSE d0
        h == route(req.method, req.path)
    IN  /\ h # "auth_login"
        /\ (d.forward /\ h \notin ReadOnly) => Cardinality(inflight) < MaxInflight
        /\ SecretAfter(DispatchDecodes(req.path, req.header), js)
        /\ inflight' = IF d.forward /\ h \notin ReadOnly
                       THEN inflight \cup {Pending(req, d.user, now, 0)}
                       ELSE inflight
        /\ last' = IF d.forward /\ h \in ReadOnly
                   THEN Outcome("handler", req, TRUE, h,
                                IF h = "none" THEN 404 ELSE 200, d.user, now,
                                NoData)
                   ELSE Outcome("dispatch", req, d.forward, "", d.status, d.user,
                                now, ErrorData("dispatch", d.status))
        /\ UNCHANGED <<now, users, seq, loginAttempts, active, ws, issued, log>>
        /\ UNCHANGED <<bcryptBuild, faults, bcast>>

Dispatch(req, rnd) ==
    LET js == read_secret(secretFile, rnd, faults)
        d == dispatch(req.path, req.header, now, js.secret)
        h == route(req.method, req.path)
    IN  /\ h # "auth_login"
        /\ (d.forward /\ h \notin ReadOnly) => Cardinality(inflight) < MaxInflight
        /\ SecretAfter(DispatchDecodes(req.path, req.header), js)
        /\ inflight' = IF d.forward /\ h \notin ReadOnly
                       THEN inflight \cup {Pending(req, d.user, now, 0)}
                       ELSE inflight
        /\ last' = IF d.forward /\ h \in ReadOnly
                   THEN Outcome("handler", req, TRUE, h,
                                IF h = "none" THEN 404 ELSE 200, d.user, now,
                                NoData)
                   ELSE Outcome("dispatch", req, d.forward, "", d.status, d.user,
                                now, ErrorData("dispatch", d.status))
        /\ UNCHANGED <<now, users, seq, loginAttempts, active, ws, issued, log>>
        /\ UNCHANGED <<bcryptBuild, faults, bcast>>

\* A variant of auth_me that reports the role claim of the token
auth_me_token_role(r, rnd) ==
    LET js == read_secret(secretFile, rnd, faults)
        user == current_user(r.req.header, now, js.secret)
        status == IF user = None THEN 401
                  ELSE IF "db" \in faults THEN 500
                  ELSE IF user.user_id \notin DOMAIN users THEN 404
                  ELSE 200
    IN  /\ r \in inflight
        /\ route(r.req.method, r.req.path) = "auth_me"
        /\ SecretAfter(r.req.header.scheme = "Bearer ", js)
        /\ inflight' = inflight \ {r}
        /\ last' = Outcome("handler", r.req, TRUE, "auth_me", status, r.user, r.at,
                           IF status = 200
                           THEN UserData(user.user_id,
                                         [users[user.user_id] EXCEPT
                                             !.role = user.role],
                                         EmptyToken)
                           ELSE ErrorData("auth_me", status))
        /\ UNCHANGED <<now, users, seq, loginAttempts, active, ws, issued, log>>
        /\ UNCHANGED <<bcryptBuild, faults, bcast>>

\* auth_me
auth_me(r, rnd) ==
    LET js == read_secret(secretFile, rnd, faults)
        user == current_user(r.req.header, now, js.secret)
        status == IF user = None THEN 401
                  ELSE IF "db" \in faults THEN 500
                  ELSE IF user.user_id \notin DOMAIN users THEN 404
                  ELSE 200
    IN  /\ r \in inflight
        /\ route(r.req.method, r.req.path) = "auth_me"
        /\ SecretAfter(r.req.header.scheme = "Bearer ", js)
        /\ inflight' = inflight \ {r}
        /\ last' = Outcome("handler", r.req, TRUE, "auth_me", status, r.user, r.at,
                           IF status = 200
                           THEN UserData(user.user_id, users[user.user_id],
                                         EmptyToken)
                           ELSE ErrorData("auth_me", status))
        /\ UNCHANGED <<now, users, seq, loginAttempts, active, ws, issued, log>>
        /\ UNCHANGED <<bcryptBuild, faults, bcast>>

\* admin_create_user: a role that is not admin or user becomes user
role_or_user_as_asked(asked) == asked

role_or_user(asked) == IF asked \notin {"admin", "user"} THEN "user" ELSE asked

\* admin_create_user
admin_create_user(r, salt) ==
    LET body == r.req.body
        username == strip(Get(body, "username", <<>>))
        password == Get(body, "password", <<>>)
        stripped == strip(Get(body, "display_name", <<>>))
        display_name == IF stripped # <<>> THEN stripped ELSE username
        asked == IF "role" \in body.nonstr THEN "7" ELSE Get(body, "role", "user")
        role == role_or_user(asked)
        row == Row(username, hashpw(password, salt), display_name, role, now)
        db == insert(users, seq, row)
        status == IF ~body.json THEN 500
                  ELSE IF {"username", "display_name"} \cap body.nonstr # {}
                  THEN 500                          \* .strip() of a number
                  ELSE IF username = <<>> THEN 400
                  ELSE IF "password" \in body.nonstr THEN 500  \* .encode()
                  ELSE IF password = <<>> THEN 400
                  ELSE IF too_long(password, bcryptBuild) THEN 500
                  ELSE IF "db" \in faults THEN 500
                  ELSE IF ~db.ok THEN 409
                  ELSE 200
    IN  /\ r \in inflight
        /\ route(r.req.method, r.req.path) = "admin_create_user"
        /\ status = 200 => seq < MaxSeq
        /\ inflight' = inflight \ {r}
        /\ users' = IF status = 200 THEN db.users ELSE users
        /\ seq' = IF status = 200 THEN db.seq ELSE seq
        /\ last' = Outcome("handler", r.req, TRUE, "admin_create_user", status,
                           r.user, r.at,
                           IF status = 200
                           THEN UserData(db.seq, row, EmptyToken)
                           ELSE ErrorData("admin_create_user", status))
        /\ UNCHANGED <<now, secretFile, loginAttempts, active, ws, issued,
                       usedSecrets, log>>
        /\ UNCHANGED <<bcryptBuild, faults, bcast>>

\* admin_update_user: the row after the UPDATE that the body asks for
updated_row_rehashes(row, body, salt) ==
    LET row1 == IF "display_name" \in body.has
                THEN [row EXCEPT !.display_name = body.display_name]
                ELSE row
        row2 == IF "role" \in body.has /\ body.role \in {"admin", "user"}
                THEN [row1 EXCEPT !.role = body.role]
                ELSE row1
    IN  [row2 EXCEPT !.password_hash = hashpw(Get(body, "password", <<>>), salt)]

updated_row(row, body, salt) ==
    LET row1 == IF "display_name" \in body.has
                THEN [row EXCEPT !.display_name =
                          IF "display_name" \in body.nonstr
                          THEN JsonNumberText ELSE body.display_name]
                ELSE row
        row2 == IF "role" \in body.has /\ "role" \notin body.nonstr
                   /\ body.role \in {"admin", "user"}
                THEN [row1 EXCEPT !.role = body.role]
                ELSE row1
    IN  IF Get(body, "password", <<>>) # <<>>
        THEN [row2 EXCEPT !.password_hash = hashpw(body.password, salt)]
        ELSE row2

\* admin_update_user
admin_update_user(r, salt) ==
    LET body == r.req.body
        user_id == path_int(r.req.path[4])
        status == IF ~body.json THEN 500
                  ELSE IF "db" \in faults THEN 500
                  ELSE IF user_id \notin DOMAIN users THEN 404
                  ELSE IF "password" \in body.nonstr THEN 500   \* .encode()
                  ELSE IF too_long(Get(body, "password", <<>>), bcryptBuild)
                  THEN 500
                  ELSE 200
    IN  /\ r \in inflight
        /\ route(r.req.method, r.req.path) = "admin_update_user"
        /\ inflight' = inflight \ {r}
        /\ users' = IF status = 200
                    THEN [users EXCEPT ![user_id] =
                             updated_row(users[user_id], body, salt)]
                    ELSE users
        /\ last' = Outcome("handler", r.req, TRUE, "admin_update_user", status,
                           r.user, r.at, ErrorData("admin_update_user", status))
        /\ UNCHANGED <<now, secretFile, seq, loginAttempts, active, ws, issued,
                       usedSecrets, log>>
        /\ UNCHANGED <<bcryptBuild, faults, bcast>>

\* admin_delete_user
admin_delete_user(r, rnd) ==
    LET js == read_secret(secretFile, rnd, faults)
        user == current_user(r.req.header, now, js.secret)
        user_id == path_int(r.req.path[4])
        status == IF user # None /\ user.user_id = user_id THEN 400
                  ELSE IF "db" \in faults THEN 500
                  ELSE 200
    IN  /\ r \in inflight
        /\ route(r.req.method, r.req.path) = "admin_delete_user"
        /\ SecretAfter(r.req.header.scheme = "Bearer ", js)
        /\ inflight' = inflight \ {r}
        /\ users' = IF status = 200 THEN Remove(users, user_id) ELSE users
        /\ last' = Outcome("handler", r.req, TRUE, "admin_delete_user", status,
                           r.user, r.at, ErrorData("admin_delete_user", status))
        /\ UNCHANGED <<now, seq, loginAttempts, active, ws, issued, log>>
        /\ UNCHANGED <<bcryptBuild, faults, bcast>>

--------------------------------------------------------------------------
(* Login and its rate limiter *)

\* _check_rate_limit(ip) at time t: its result and _login_attempts afterwards
check_rate_limit_no_limit(la, ip, t) ==
    IF ip \in DOMAIN la
    THEN [ok |-> TRUE, attempts |-> [la EXCEPT ![ip] = <<la[ip][1] + 1, la[ip][2]>>]]
    ELSE [ok |-> TRUE, attempts |-> (ip :> <<1, t>>) @@ la]

\* Variants: one that admits without recording, one that counts a rejected
\* attempt, one that restarts the window at its last second, one that
\* restarts the window on a rejected attempt
check_rate_limit_unrecorded(la, ip, t) ==
    IF ip \in DOMAIN la /\ la[ip][1] < LOGIN_MAX_ATTEMPTS
          /\ t - la[ip][2] <= LOGIN_WINDOW_SECONDS
    THEN [ok |-> TRUE, attempts |-> la]
    ELSE IF ip \in DOMAIN la /\ t - la[ip][2] <= LOGIN_WINDOW_SECONDS
    THEN [ok |-> FALSE, attempts |-> la]
    ELSE [ok |-> TRUE, attempts |-> (ip :> <<1, t>>) @@ la]

check_rate_limit_counts_rejected(la, ip, t) ==
    IF ip \in DOMAIN la /\ t - la[ip][2] <= LOGIN_WINDOW_SECONDS
    THEN [ok |-> la[ip][1] < LOGIN_MAX_ATTEMPTS,
          attempts |-> [la EXCEPT ![ip] = <<la[ip][1] + 1, la[ip][2]>>]]
    ELSE [ok |-> TRUE, attempts |-> (ip :> <<1, t>>) @@ la]

check_rate_limit_early_restart(la, ip, t) ==
    IF ip \in DOMAIN la /\ t - la[ip][2] < LOGIN_WINDOW_SECONDS
    THEN IF la[ip][1] >= LOGIN_MAX_ATTEMPTS
         THEN [ok |-> FALSE, attempts |-> la]
         ELSE [ok |-> TRUE,
               attempts |-> [la EXCEPT ![ip] = <<la[ip][1] + 1, la[ip][2]>>]]
    ELSE [ok |-> TRUE, attempts |-> (ip :> <<1, t>>) @@ la]

check_rate_limit_extends(la, ip, t) ==
    IF ip \in DOMAIN la /\ t - la[ip][2] <= LOGIN_WINDOW_SECONDS
    THEN IF la[ip][1] >= LOGIN_MAX_ATTEMPTS
         THEN [ok |-> FALSE, attempts |-> [la EXCEPT ![ip] = <<la[ip][1], t>>]]
         ELSE [ok |-> TRUE,
               attempts |-> [la EXCEPT ![ip] = <<la[ip][1] + 1, la[ip][2]>>]]
    ELSE [ok |-> TRUE, attempts |-> (ip :> <<1, t>>) @@ la]

check_rate_limit(la, ip, t) ==
    IF ip \in DOMAIN la
    THEN LET count == la[ip][1]
             first == la[ip][2]
         IN  IF t - first > LOGIN_WINDOW_SECONDS
             THEN [ok |-> TRUE, attempts |-> [la EXCEPT ![ip] = <<1, t>>]]
             ELSE IF count >= LOGIN_MAX_ATTEMPTS
             THEN [ok |-> FALSE, attempts |-> la]
             ELSE [ok |-> TRUE,
                   attempts |-> [la EXCEPT ![ip] = <<count + 1, first>>]]
    ELSE [ok |-> TRUE, attempts |-> (ip :> <<1, t>>) @@ la]

\* _reset_rate_limit(ip)
reset_rate_limit_keeps(la, ip) == la

reset_rate_limit_clears_all(la, ip) == <<>>

reset_rate_limit(la, ip) == Remove(la, ip)

\* An entry of the login log: when the attempt arrived, the status it was
\* answered with (0: not yet), and how many attempts of its address had
\* arrived when it was answered
Attempt(at, status, after) == [at |-> at, status |-> status, after |-> after]

RECURSIVE SumLen(_, _)
SumLen(f, S) ==
    IF S = {} THEN 0
    ELSE LET x == CHOOSE y \in S : TRUE IN Len(f[x]) + SumLen(f, S \ {x})

\* auth_login up to its first suspension point (await request.json()): the
\* middleware forwards the open path, the handler checks the rate limit;
\* at most cap attempts arrive in all, at most pending are suspended at once
LoginArriveAmong(req, cap, pending) ==
    LET d == dispatch(req.path, req.header, now, <<>>)
        rl == check_rate_limit(loginAttempts, req.ip, now)
        n == Len(log[req.ip]) + 1
    IN  /\ route(req.method, req.path) = "auth_login"
        /\ d.forward
        /\ SumLen(log, DOMAIN log) < cap
        /\ rl.ok => Cardinality(inflight) < pending
        /\ loginAttempts' = rl.attempts
        /\ log' = [log EXCEPT ![req.ip] =
                       Append(@, Attempt(now, IF rl.ok THEN 0 ELSE 429,
                                         IF rl.ok THEN 0 ELSE n))]
        /\ inflight' = IF rl.ok THEN inflight \cup {Pending(req, None, now, n)}
                       ELSE inflight
        /\ last' = Outcome("arrive", req, TRUE, "auth_login",
                           IF rl.ok THEN 0 ELSE 429, None, now,
                           ErrorData("auth_login", IF rl.ok THEN 0 ELSE 429))
        /\ UNCHANGED <<now, secretFile, users, seq, active, ws, issued,
                       usedSecrets>>
        /\ UNCHANGED <<bcryptBuild, faults, bcast>>

LoginArrive(req, cap) == LoginArriveAmong(req, cap, MaxInflight)

\* auth_login from the body on
LoginFinish(r, rnd) ==
    LET body == r.req.body
        ip == r.req.ip
        username == strip(Get(body, "username", <<>>))
        password == Get(body, "password", <<>>)
        found == ByUsername(users, username)
        id == CHOOSE i \in found : TRUE
        row == users[id]
        \* the answer up to and including the password check (200: it passed)
        checked == IF ~body.json THEN 500
                   ELSE IF "username" \in body.nonstr THEN 500   \* .strip()
                   ELSE IF username = <<>> THEN 400
                   ELSE IF password = <<>> /\ "password" \notin body.nonstr
                   THEN 400
                   ELSE IF "db" \in faults THEN 500
                   ELSE IF found = {} THEN 401
                   ELSE IF "password" \in body.nonstr THEN 500   \* .encode()
                   ELSE IF too_long(password, bcryptBuild) THEN 500
                   ELSE IF ~checkpw(password, row.password_hash) THEN 401
                   ELSE 200
        js == read_secret(secretFile, rnd, faults)
        \* _make_token raises when _jwt_secret() does, after the UPDATE and
        \* the reset of the rate limit
        status == IF checked = 200 /\ js.secret = Unreadable THEN 500
                  ELSE checked
        token == make_token(id, row.username, row.role, now, js.secret)
    IN  /\ r \in inflight
        /\ route(r.req.method, r.req.path) = "auth_login"
        /\ status = 200 => token \in issued \/ Cardinality(issued) < MaxIssued
        /\ inflight' = inflight \ {r}
        /\ log' = [log EXCEPT ![ip][r.n] =
                       Attempt(@.at, status, Len(log[ip]))]
        /\ SecretAfter(checked = 200, js)
        /\ users' = IF checked = 200 THEN [users EXCEPT ![id].last_login = now]
                    ELSE users
        /\ loginAttempts' = IF checked = 200
                            THEN reset_rate_limit(loginAttempts, ip)
                            ELSE loginAttempts
        /\ issued' = IF status = 200 THEN issued \cup {token} ELSE issued
        /\ last' = Outcome("handler", r.req, TRUE, "auth_login", status, None,
                           r.at,
                           IF status = 200 THEN UserData(id, row, token)
                           ELSE ErrorData("auth_login", status))
        /\ UNCHANGED <<now, seq, active, ws>>
        /\ UNCHANGED <<bcryptBuild, faults, bcast>>

--------------------------------------------------------------------------
(* The /ws handshake *)

\* websocket_endpoint up to manager.connect: the token query parameter is
\* decoded unless it is empty; a connection without claims is closed
ws_user_any_token(tok, t, secret) ==
    IF tok.kind = "jwt" THEN tok.payload ELSE None

ws_user(tok, t, secret) ==
    IF tok.kind # "empty" THEN decode_token(tok, t, secret) ELSE None

WsHandshake(c, tok, rnd) ==
    LET js == read_secret(secretFile, rnd, faults)
        user == ws_user(tok, now, js.secret)
    IN  /\ ws[c].state \in {"idle", "refused", "closed"}
        /\ SecretAfter(tok.kind # "empty", js)
        /\ ws' = [ws EXCEPT ![c] =
                    IF user = None
                    THEN [state |-> "refused", token |-> tok, at |-> now,
                          code |-> WS_CLOSE_UNAUTHORIZED,
                          reason |-> "Unauthorized", pongs |-> 0]
                    ELSE [state |-> "accepting", token |-> tok, at |-> now,
                          code |-> 0, reason |-> "", pongs |-> 0]]
        /\ last' = Quiet("ws")
        /\ UNCHANGED <<now, users, seq, loginAttempts, active, inflight, issued,
                       log>>
        /\ UNCHANGED <<bcryptBuild, faults, bcast>>

\* ConnectionManager.connect after await ws.accept()
connect(a, c) == a \cup {c}

\* The active set is changed while a broadcast is suspended in its loop
touched(b, changed) ==
    IF b.state = "sending" /\ changed THEN [b EXCEPT !.moved = TRUE] ELSE b

WsAccepted(c) ==
    /\ ws[c].state = "accepting"
    /\ active' = connect(active, c)
    /\ ws' = [ws EXCEPT ![c].state = "open"]
    /\ last' = Quiet("ws")
    /\ UNCHANGED <<now, secretFile, users, seq, loginAttempts, inflight, issued,
                   usedSecrets, log>>
    /\ bcast' = touched(bcast, c \notin active)
    /\ UNCHANGED <<bcryptBuild, faults>>

\* await ws.accept() raises: the client went away during the handshake
WsAcceptFailed(c) ==
    /\ ws[c].state = "accepting"
    /\ ws' = [ws EXCEPT ![c].state = "closed"]
    /\ last' = Quiet("ws")
    /\ UNCHANGED <<now, secretFile, users, seq, loginAttempts, active, inflight,
                   issued, usedSecrets, log>>
    /\ UNCHANGED <<bcryptBuild, faults, bcast>>

\* ConnectionManager.disconnect
disconnect(a, c) == a \ {c}

\* ws.receive_text() raises WebSocketDisconnect
WsDisconnect(c) ==
    /\ ws[c].state = "open"
    /\ active' = disconnect(active, c)
    /\ ws' = [ws EXCEPT ![c].state = "closed"]
    /\ last' = Quiet("ws")
    /\ UNCHANGED <<now, secretFile, users, seq, loginAttempts, inflight, issued,
                   usedSecrets, log>>
    /\ bcast' = touched(bcast, c \in active)
    /\ UNCHANGED <<bcryptBuild, faults>>

\* Inbound text frames: a JSON object of type ping, any other JSON object,
\* and a text that json.loads or msg.get raises on
Frames == {"ping", "other", "malformed"}

\* The number of pongs the receive loop sends in answer to a frame
pongs_twice(kind) == IF kind = "ping" THEN 2 ELSE 0

pongs_for(kind) == IF kind = "ping" THEN 1 ELSE 0

\* One turn of the receive loop of websocket_endpoint: receive_text returns a
\* frame; the pong of a ping is sent (okay) or ws.send_json raises; an
\* exception ends the loop through manager.disconnect. pongs is the number
\* of pongs sent in answer to the connection's latest frame; the step is
\* recorded with the frame's kind and, as its peer, the connection
WsMessage(c, kind, okay) ==
    LET ends == kind = "malformed" \/ (pongs_for(kind) > 0 /\ ~okay)
    IN  /\ ws[c].state = "open"
        /\ active' = IF ends THEN disconnect(active, c) ELSE active
        /\ ws' = [ws EXCEPT ![c].state = IF ends THEN "closed" ELSE "open",
                            ![c].pongs = IF ends THEN 0 ELSE pongs_for(kind)]
        /\ last' = [Quiet("message") EXCEPT !.handler = kind, !.req.ip = c]
        /\ bcast' = touched(bcast, ends /\ c \in active)
        /\ UNCHANGED <<now, secretFile, users, seq, loginAttempts, inflight,
                       issued, usedSecrets, log, bcryptBuild, faults>>

--------------------------------------------------------------------------
(* ConnectionManager.broadcast, one step per suspension point *)

Callers == {"periodic_updates", "add_notification"}

\* try: await ws.send_json(message) / except: dead.add(ws)
sent(b, okay) ==
    IF okay THEN [b EXCEPT !.ok = @ \cup {b.cur}]
    ELSE [b EXCEPT !.dead = @ \cup {b.cur}]

\* self.active -= dead, a variant that prunes nothing
pruned_nothing(a, dead) == a

\* self.active -= dead
pruned(a, dead) == a \ dead

\* The set iterator refuses to go on once the size of the set differs from
\* the size it was made with
size_changed(b, a) == Cardinality(a) # b.used

\* What the iterator can yield next: the members not yet yielded while the
\* set is as it was; any member once the table under it has been changed
yieldable(b, a) == IF b.moved THEN a ELSE a \ b.seen

\* Whether the iterator can be exhausted now
exhaustible(b, a) == b.moved \/ a \ b.seen = {}

\* dead = set(); for ws in self.active: up to the first await ws.send_json.
\* periodic_updates broadcasts only if manager.active; add_notification always
BroadcastStart(caller) ==
    /\ bcast.state \in {"idle", "done", "aborted"}
    /\ caller = "periodic_updates" => active # {}
    /\ \/ /\ active = {}
          /\ bcast' = [NoCast EXCEPT !.state = "done", !.caller = caller]
          /\ active' = pruned(active, {})
       \/ /\ \E c \in active :
                bcast' = [NoCast EXCEPT !.state = "sending", !.caller = caller,
                                        !.used = Cardinality(active),
                                        !.snap = active, !.seen = {c},
                                        !.cur = c]
          /\ active' = active
    /\ last' = Quiet("broadcast")
    /\ UNCHANGED <<now, secretFile, users, seq, loginAttempts, ws, inflight,
                   issued, usedSecrets, log, bcryptBuild, faults>>

\* await ws.send_json, begun while the connection was open, returns (okay)
\* or raises whatever became of the connection since; then the loop asks the
\* iterator for the next connection: RuntimeError (Set changed size during
\* iteration) leaves broadcast before self.active -= dead; exhaustion runs
\* self.active -= dead; otherwise the next send is awaited
BroadcastSend(okay) ==
    LET b == sent(bcast, okay)
    IN  /\ bcast.state = "sending"
        /\ \/ /\ size_changed(b, active)
              /\ bcast' = [b EXCEPT !.state = "aborted", !.cur = ""]
              /\ active' = active
           \/ /\ ~size_changed(b, active)
              /\ \E c \in yieldable(b, active) :
                    bcast' = [b EXCEPT !.cur = c, !.seen = @ \cup {c}]
              /\ active' = active
           \/ /\ ~size_changed(b, active)
              /\ exhaustible(b, active)
              /\ bcast' = [b EXCEPT !.state = "done", !.cur = ""]
              /\ active' = pruned(active, b.dead)
        /\ last' = Quiet("broadcast")
        /\ UNCHANGED <<now, secretFile, users, seq, loginAttempts, ws, inflight,
                       issued, usedSecrets, log, bcryptBuild, faults>>

--------------------------------------------------------------------------
(* The environment *)

\* A variant in which the passing of time closes the connections whose
\* token has expired
Tick_closes_expired(d, horizon) ==
    /\ now + d <= horizon
    /\ now' = now + d
    /\ last' = Quiet("tick")
    /\ active' = {c \in active : ws[c].token.payload.exp > now + d}
    /\ ws' = [c \in Conns |->
                IF c \in active /\ ws[c].token.payload.exp <= now + d
                THEN [ws[c] EXCEPT !.state = "closed"] ELSE ws[c]]
    /\ UNCHANGED <<secretFile, users, seq, loginAttempts, inflight,
                   issued, usedSecrets, log>>
    /\ UNCHANGED <<bcryptBuild, faults, bcast>>

\* The clock advances by d seconds, up to a horizon
Tick(d, horizon) ==
    /\ now + d <= horizon
    /\ now' = now + d
    /\ last' = Quiet("tick")
    /\ UNCHANGED <<secretFile, users, seq, loginAttempts, active, ws, inflight,
                   issued, usedSecrets, log>>
    /\ UNCHANGED <<bcryptBuild, faults, bcast>>

\* A persistent store ("db": the users database, "secret": the secret file)
\* stops being readable, or becomes readable again
Stores == {"db", "secret"}

Fault(f) ==
    /\ f \notin faults
    /\ f = "secret" => secretFile.exists
    /\ faults' = faults \cup {f}
    /\ last' = Quiet("fault")
    /\ UNCHANGED <<now, secretFile, users, seq, loginAttempts, active, ws,
                   inflight, issued, usedSecrets, log, bcryptBuild, bcast>>

Repair(f) ==
    /\ f \in faults
    /\ faults' = faults \ {f}
    /\ last' = Quiet("fault")
    /\ UNCHANGED <<now, secretFile, users, seq, loginAttempts, active, ws,
                   inflight, issued, usedSecrets, log, bcryptBuild, bcast>>

\* The process is restarted: memory is lost, connections and suspended
\* requests die, the files stay, startup() runs _init_users_db()
Restart(salt) ==
    LET db == init_users_db(users, seq, salt, now)
    IN  /\ users' = db.users
        /\ seq' = db.seq
        /\ db.seq <= MaxSeq
        /\ loginAttempts' = <<>>
        /\ active' = {}
        /\ ws' = [c \in Conns |-> NoWs]
        /\ inflight' = {}
        /\ log' = [ip \in Ips |-> <<>>]
        /\ last' = Quiet("startup")
        /\ UNCHANGED <<now, secretFile, issued, usedSecrets>>
        /\ bcast' = NoCast
        /\ UNCHANGED <<bcryptBuild, faults>>

--------------------------------------------------------------------------
(* Inputs *)

Bob == <<"b">>
Pw == <<"p">>

CreateBodies ==
    { Body({"username", "password", "role"}, <<" ", "b", " ">>, Pw, <<>>, "admin"),
      Body({"username", "password"}, AdminName, Pw, <<>>, ""),
      Body({"username"}, Bob, <<>>, <<>>, "") }

UpdateBodies ==
    { Body({"role"}, <<>>, <<>>, <<>>, "user"),
      Body({"password"}, <<>>, Pw, <<>>, "") }

\* The value secrets.token_hex draws if _jwt_secret calls it. With the file
\* present the code does not draw: one value, not the file's, stands for all
Draws ==
    IF secretFile.exists
    THEN {CHOOSE x \in TokenHex : x # secretFile.text}
    ELSE TokenHex

Get_(method, paths, headers) ==
    {Request(method, p, h, NoBody, "10.0.0.1") : p \in paths, h \in headers}
Send(method, paths, headers, bodies) ==
    {Request(method, p, h, b, "10.0.0.1") :
        p \in paths, h \in headers, b \in bodies}

LoginRequests(ips, bodies) ==
    {Request("POST", P_login, NoHeader, b, ip) : ip \in ips, b \in bodies}

AdminLogin == Body({"username", "password"}, AdminName, DefaultPassword, <<>>, "")
BobLogin == Body({"username", "password"}, <<"b", " ">>, Pw, <<>>, "")
CreateBob == Body({"username", "password", "role"}, Bob, Pw, <<>>, "user")

--------------------------------------------------------------------------
(* Specifications *)

\* The middleware in front of the API: every kind of path and of header;
\* the clock steps around a token lifetime
MwRequests ==
    Get_("GET", {P_me, P_users, P_admin_page, <<"api", "admin">>}, Headers(now))
    \cup Send("POST", {P_users}, {Bearer(k) : k \in issued}, {CreateBob})

Next ==
    \/ \E req \in MwRequests, rnd \in Draws : Dispatch(req, rnd)
    \/ \E r \in inflight, rnd \in Draws : auth_me(r, rnd)
    \/ \E r \in inflight, salt \in FirstSalt : admin_create_user(r, salt)
    \/ \E req \in LoginRequests({"10.0.0.1"}, {AdminLogin, BobLogin}) :
          LoginArrive(req, MaxLogins)
    \/ \E r \in inflight, rnd \in Draws : LoginFinish(r, rnd)
    \/ \E d \in {TokenLifetime - 1, TokenLifetime} :
          Tick(d, MaxLifetimes * TokenLifetime)
    \/ \E salt \in FirstSalt : Restart(salt)

Spec == Init /\ [][Next]_vars

--------------------------------------------------------------------------
(* Properties of the middleware and the token service (under Spec) *)

\* A path of the protected API: under /api/ and not the login endpoint
Protected(path) == startswith(path, <<"api">>) /\ path # P_login
AdminOnly(path) == startswith(path, <<"api", "admin">>)

\* The header carries a token this server handed out, unexpired at time t
Verified(header, t) ==
    /\ header.scheme = "Bearer "
    /\ header.token \in issued
    /\ t < header.token.payload.exp

\* C1: a request to a protected API path without a Bearer token, or with one
\* that is malformed, wrongly signed or expired, is answered 401 and is not
\* forwarded; every request that is forwarded to, or was served by, a handler
\* of the protected API carried a token that verified at the middleware, and
\* the handler got that token's claims.
C1_ProtectedNeedsVerifiedToken ==
    /\ \A r \in inflight :
          Protected(r.req.path) =>
             Verified(r.req.header, r.at) /\ r.user = r.req.header.token.payload
    /\ (last.step = "dispatch" /\ Protected(last.req.path)
          /\ ~Verified(last.req.header, last.at))
          => (last.status = 401 /\ ~last.forward)
    /\ (last.step = "handler" /\ Protected(last.req.path))
          => (Verified(last.req.header, last.at)
              /\ last.user = last.req.header.token.payload)

\* C1 witness: a token the server issued is presented to the protected API
\* after its expiry and is answered 401
C1_Witness ==
    /\ last.step = "dispatch"
    /\ Protected(last.req.path)
    /\ last.req.header.scheme = "Bearer "
    /\ last.req.header.token \in issued
    /\ last.status = 401
    /\ ~last.forward

\* C2: a request under /api/admin/ whose verified token has a role other
\* than admin is answered 403 and is not forwarded; every request forwarded
\* to, or served by, an admin handler carried a token with role admin.
C2_AdminNeedsAdminRole ==
    /\ \A r \in inflight :
          AdminOnly(r.req.path) => r.req.header.token.payload.role = "admin"
    /\ (last.step = "dispatch" /\ AdminOnly(last.req.path)
          /\ Verified(last.req.header, last.at)
          /\ last.req.header.token.payload.role # "admin")
          => (last.status = 403 /\ ~last.forward)
    /\ (last.step = "handler" /\ AdminOnly(last.req.path))
          => last.req.header.token.payload.role = "admin"

\* C2 witness: a verified token of role user is answered 403 on an admin path
C2_Witness ==
    /\ last.step = "dispatch"
    /\ AdminOnly(last.req.path)
    /\ Verified(last.req.header, last.at)
    /\ last.req.header.token.payload.role = "user"
    /\ last.status = 403
    /\ ~last.forward

\* C6: the token a successful login returns carries the account's id,
\* username and role and expires TokenLifetime after it was issued; at every
\* instant before its expiry _decode_token returns exactly those claims, and
\* at every instant from its expiry on it returns None.
C6_TokenValidUntilExpiry ==
    /\ (last.step = "handler" /\ last.handler = "auth_login" /\ last.status = 200)
          => /\ last.data.token \in issued
             /\ last.data.token.payload =
                   [user_id |-> last.data.id, username |-> last.data.username,
                    role |-> last.data.role, exp |-> now + TokenLifetime]
    /\ \A tok \in issued, rnd \in TokenHex :
          LET claims == decode_token(tok, now, jwt_secret(secretFile, rnd).secret)
          IN  IF now < tok.payload.exp
              THEN claims = tok.payload
              ELSE claims = None

\* C6 witness: the clock stands exactly at the expiry of an issued token
C6_Witness == \E tok \in issued : now = tok.payload.exp

\* At most one secret value has ever been returned by _jwt_secret, it is the
\* content of the secret file, and after a restart every unexpired token
\* issued before it still decodes to its claims
C7_SecretState ==
    /\ Cardinality(usedSecrets) <= 1
    /\ usedSecrets # {} =>
          secretFile.exists /\ usedSecrets = {strip(secretFile.text)}
    /\ last.step = "startup" =>
          \A tok \in issued, rnd \in TokenHex :
             now < tok.payload.exp =>
                decode_token(tok, now, jwt_secret(secretFile, rnd).secret)
                   = tok.payload

\* C7: the signing secret is generated once, when the secret file is absent,
\* and read unchanged thereafter: _jwt_secret never returns two different
\* values and never rewrites an existing secret file, and an unexpired token
\* issued before a restart still decodes to its claims after it.
C7_OneSecret ==
    [](C7_SecretState) /\ [][secretFile.exists => secretFile' = secretFile]_vars

\* C7 witness: the process has restarted while an unexpired token is out
C7_Witness ==
    /\ last.step = "startup"
    /\ secretFile.exists
    /\ \E tok \in issued : now < tok.payload.exp

--------------------------------------------------------------------------
(* The /ws handshake (under SpecWs) *)

WsTokens(t) == Presentable(t) \cup {EmptyToken}

NextWs ==
    \/ \E req \in LoginRequests({"10.0.0.1"}, {AdminLogin}) :
          LoginArrive(req, MaxLogins)
    \/ \E r \in inflight, rnd \in Draws : LoginFinish(r, rnd)
    \/ \E c \in Conns, tok \in WsTokens(now), rnd \in Draws :
          WsHandshake(c, tok, rnd)
    \/ \E c \in Conns : WsAccepted(c)
    \/ \E c \in Conns : WsAcceptFailed(c)
    \/ \E c \in Conns : WsDisconnect(c)
    \/ \E d \in {TokenLifetime - 1, TokenLifetime} :
          Tick(d, MaxLifetimes * TokenLifetime)
    \/ \E salt \in FirstSalt : Restart(salt)

SpecWs == Init /\ [][NextWs]_vars

\* The token a connection presented was handed out by this server and was
\* unexpired at the handshake
WsVerified(c) ==
    /\ ws[c].token \in issued
    /\ ws[c].at < ws[c].token.payload.exp

\* C3: a /ws attempt whose token is missing, malformed, wrongly signed or
\* expired is closed with code 4001 and reason "Unauthorized" and is not in
\* the active set; every member of the active set presented a token that
\* verified at its handshake.
C3_WsNeedsVerifiedToken ==
    /\ \A c \in active : ws[c].state = "open" /\ WsVerified(c)
    /\ \A c \in Conns :
          (ws[c].state # "idle" /\ ~WsVerified(c))
             => /\ ws[c].state = "refused"
                /\ ws[c].code = 4001
                /\ ws[c].reason = "Unauthorized"
                /\ c \notin active

\* C3 witness: one connection is refused with an expired token of this
\* server while another is in the active set
C3_Witness ==
    \E c, d \in Conns :
       /\ ws[c].state = "refused"
       /\ ws[c].token \in issued
       /\ ws[c].code = 4001
       /\ d \in active

--------------------------------------------------------------------------
(* The login rate limiter (under SpecRate) *)

WrongLogin == Body({"username", "password"}, AdminName, Pw, <<>>, "")

NextRate ==
    \/ \E req \in LoginRequests({"10.0.0.1"}, {AdminLogin, WrongLogin}) :
          LoginArrive(req, MaxLog)
    \/ \E r \in inflight, rnd \in Draws : LoginFinish(r, rnd)
    \/ \E d \in {LOGIN_WINDOW_SECONDS, LOGIN_WINDOW_SECONDS + 1} :
          Tick(d, MaxWindows * LOGIN_WINDOW_SECONDS + 1)
    \/ \E salt \in FirstSalt : Restart(salt)

SpecRate == Init /\ [][NextRate]_vars

\* Answers of an admitted attempt that did not log in
Failed == {400, 401, 500}

FiveFailed(ip) ==
    /\ Len(log[ip]) >= 5
    /\ \A i \in 1..5 : log[ip][i].status \in Failed

\* When the first five attempts of an address in this
\* process failed, every later attempt of that address that arrives within
\* LOGIN_WINDOW_SECONDS of the first is answered 429.
C4_State ==
    \A ip \in Ips :
       FiveFailed(ip) =>
          \A j \in 6..Len(log[ip]) :
             log[ip][j].at - log[ip][1].at <= LOGIN_WINDOW_SECONDS
                => log[ip][j].status = 429

\* C4: for a fixed address, after five failed attempts the sixth attempt
\* within LOGIN_WINDOW_SECONDS of the first is answered 429 whether or not
\* its password is correct, and the step that answers 429 suspends no
\* handler, verifies no credentials, updates no last login and issues no
\* token.
C4_SixthAttemptRejected ==
    /\ [](C4_State)
    /\ [][(last'.step = "arrive" /\ last'.status = 429)
             => (UNCHANGED <<users, issued, inflight, secretFile, loginAttempts>>)]_vars

\* C4 witness: the sixth attempt carries the correct password and gets 429
C4_Witness ==
    \E ip \in Ips :
       /\ FiveFailed(ip)
       /\ Len(log[ip]) = 6
       /\ log[ip][6].status = 429
       /\ last.step = "arrive"
       /\ last.req.ip = ip
       /\ last.req.body = AdminLogin

\* C5: the first attempt of an address that arrives after a successful login
\* from that address was answered is not answered 429.
C5_FirstAfterSuccessAdmitted ==
    \A ip \in Ips :
       \A k \in 1..Len(log[ip]) :
          (log[ip][k].status = 200 /\ Len(log[ip]) > log[ip][k].after)
             => log[ip][log[ip][k].after + 1].status # 429

\* C5 witness: five failures, then a success, then an attempt that is admitted
C5_Witness ==
    \E ip \in Ips :
       /\ Len(log[ip]) = 7
       /\ FiveFailed(ip)
       /\ log[ip][6].status = 200
       /\ log[ip][6].after = 6
       /\ log[ip][7].status # 429

--------------------------------------------------------------------------
(* The credential store behind the admin API (under SpecAccounts) *)

IdSegs == {ToString(i) : i \in 1..MaxTarget}

AccountRequests ==
    LET H == {Bearer(k) : k \in issued}
    IN  Send("POST", {P_users}, H, CreateBodies)
        \cup Send("PUT", {P_user(i) : i \in IdSegs}, H, UpdateBodies)
        \cup Send("DELETE", {P_user(i) : i \in IdSegs}, H, {NoBody})

NextAccounts ==
    \/ \E req \in AccountRequests, rnd \in Draws : Dispatch(req, rnd)
    \/ \E r \in inflight, salt \in FirstSalt : admin_create_user(r, salt)
    \/ \E r \in inflight, salt \in FirstSalt : admin_update_user(r, salt)
    \/ \E r \in inflight, rnd \in Draws : admin_delete_user(r, rnd)
    \/ \E req \in LoginRequests({"10.0.0.1"}, {AdminLogin, BobLogin}) :
          LoginArrive(req, MaxLogins)
    \/ \E r \in inflight, rnd \in Draws : LoginFinish(r, rnd)
    \/ \E salt \in Salts : Restart(salt)

SpecAccounts == Init /\ [][NextAccounts]_vars

Admins == {i \in DOMAIN users : users[i].role = "admin"}

\* C8: at least one account has role admin.
C8_AdminExists == Admins # {}

\* What _init_users_db does to the table at a startup
C9_StartupStep ==
    last'.step = "startup" =>
       IF DOMAIN users # {}
       THEN users' = users /\ seq' = seq
       ELSE /\ Cardinality(DOMAIN users') = 1
            /\ \A i \in DOMAIN users' :
                  /\ users'[i].username = AdminName
                  /\ users'[i].role = "admin"
                  /\ checkpw(DefaultPassword, users'[i].password_hash)

\* C9: bootstrap is idempotent: a startup leaves a table that has accounts
\* exactly as it is (no password hash, role or display name changes), puts
\* the one default admin account into an empty table, and no two accounts
\* are ever named admin.
C9_BootstrapIdempotent ==
    /\ [][C9_StartupStep]_vars
    /\ [](Cardinality(ByUsername(users, AdminName)) <= 1)

\* C9 witness: the process has restarted on a table whose admin account no
\* longer has the default password
C9_Witness ==
    /\ last.step = "startup"
    /\ \E i \in DOMAIN users :
          /\ users[i].username = AdminName
          /\ ~checkpw(DefaultPassword, users[i].password_hash)

\* The answer of admin_create_user to a duplicate or an empty field
C10_CreateStep ==
    (last'.step = "handler" /\ last'.handler = "admin_create_user"
       /\ last'.req.body.json)
    => LET body == last'.req.body
           username == IF "username" \in body.has THEN body.username ELSE <<>>
           password == IF "password" \in body.has THEN body.password ELSE <<>>
       IN  /\ (username = <<>> \/ password = <<>>)
                => (last'.status = 400 /\ users' = users /\ seq' = seq)
           /\ (username # <<>> /\ password # <<>>
                 /\ \E i \in DOMAIN users : users[i].username = username)
                => (last'.status = 409 /\ users' = users /\ seq' = seq)

\* C10: a creation whose username is that of an existing account is answered
\* 409, one whose username or password is empty or missing is answered 400,
\* and neither changes the table; no two accounts share a username.
C10_UniqueUsernames ==
    /\ [][C10_CreateStep]_vars
    /\ [](\A i, j \in DOMAIN users :
             i # j => users[i].username # users[j].username)

\* C10 witness: a second account exists and a creation that repeats one of
\* the usernames has just been answered 409
C10_Witness ==
    /\ last.step = "handler"
    /\ last.handler = "admin_create_user"
    /\ last.status = 409
    /\ Cardinality(DOMAIN users) >= 2

--------------------------------------------------------------------------
(* Password verification (under SpecPasswords) *)

Carol == <<"c">>
Other == <<"q">>

\* Two passwords of BCRYPT_MAX + 1 bytes that differ in the last byte only
Long == [i \in 1..(BCRYPT_MAX + 1) |-> "x"]
LongOther == [i \in 1..(BCRYPT_MAX + 1) |-> IF i > BCRYPT_MAX THEN "y" ELSE "x"]

\* The accounts created through POST /api/admin/users, as (username, password)
CreatedPairs == {<<Bob, Pw>>, <<Carol, Long>>}
CreatedNames == {pr[1] : pr \in CreatedPairs}

PasswordCreates ==
    {Body({"username", "password"}, pr[1], pr[2], <<>>, "") : pr \in CreatedPairs}

\* A username that no account has
NoSuch == <<"n">>

\* Logins with a password that is a JSON number, for an existing and for a
\* missing username
NumberLogins ==
    {Numeric(Body({"username", "password"}, u, <<>>, <<>>, ""), {"password"}) :
        u \in {AdminName, NoSuch}}

PasswordLogins ==
    {AdminLogin, Body({"username", "password"}, NoSuch, Other, <<>>, "")}
    \cup {Body({"username", "password"}, u, pw, <<>>, "") :
             u \in CreatedNames, pw \in {Pw, Other, Long, LongOther}}
    \cup NumberLogins

NextPasswords ==
    \/ \E req \in Send("POST", {P_users}, {Bearer(k) : k \in issued},
                        PasswordCreates), rnd \in Draws : Dispatch(req, rnd)
    \/ \E r \in inflight, salt \in FirstSalt : admin_create_user(r, salt)
    \/ \E req \in LoginRequests({"10.0.0.1"}, PasswordLogins) :
          LoginArrive(req, MaxLogins)
    \/ \E r \in inflight, rnd \in Draws : LoginFinish(r, rnd)
    \/ \E salt \in FirstSalt : Restart(salt)

SpecPasswords == InitBuilds /\ [][NextPasswords]_vars

\* C11: a login with the username and password an account was created with
\* is answered 200 with a token and the user record of that account; a login
\* with that username and any other password is answered 401 and is handed
\* no token.
C11_CreatedPairsLogIn ==
    (last.step = "handler" /\ last.handler = "auth_login"
       /\ last.req.body.nonstr = {})
    => LET u == strip(last.req.body.username)
           pw == last.req.body.password
           acc == ByUsername(users, u)
       IN  (u \in CreatedNames /\ acc # {})
           => IF <<u, pw>> \in CreatedPairs
              THEN /\ last.status = 200
                   /\ last.data.id \in acc
                   /\ last.data.username = u
                   /\ last.data.token \in issued
                   /\ last.data.token.payload.user_id = last.data.id
              ELSE /\ last.status = 401
                   /\ last.data.token = EmptyToken

\* The request carries a username and a password
PresentsCredentials(body) ==
    /\ body.json
    /\ "username" \notin body.nonstr
    /\ strip(body.username) # <<>>
    /\ body.password # <<>> \/ "password" \in body.nonstr

\* What C12 asks of one step
C12_LoginStep ==
    (last'.step = "handler" /\ last'.handler = "auth_login"
       /\ PresentsCredentials(last'.req.body) /\ last'.status # 200)
    => /\ last'.status = 401
       /\ last'.data.error = "Invalid credentials"
       /\ loginAttempts' = loginAttempts

\* C12: a login that presents a username and a password and does not log in
\* is answered 401 with the one body "Invalid credentials" and leaves the
\* rate-limit bucket as the arrival left it, whether or not an account has
\* the username: the answer does not tell the two cases apart.
C12_NoUsernameEnumeration == [][C12_LoginStep]_vars

--------------------------------------------------------------------------
(* Errors of the admin API (under SpecAccounts) *)

\* The id a request to /api/admin/users/{user_id} names
Target(req) == path_int(req.path[4])

\* What C13 asks of one step
C13_DeleteStep ==
    (last'.step = "handler" /\ last'.handler = "admin_delete_user"
       /\ Target(last'.req) = last'.user.user_id)
    => /\ last'.status = 403
       /\ Target(last'.req) \in DOMAIN users
             => Target(last'.req) \in DOMAIN users'

\* C13: a delete request whose target id is the id in the caller's verified
\* token is answered 403, and the caller's account stays in the table.
C13_SelfDeleteForbidden == [][C13_DeleteStep]_vars

\* What C14 asks of one step
C14_MissingStep ==
    (last'.step = "handler"
       /\ last'.handler \in {"admin_update_user", "admin_delete_user"}
       /\ last'.req.body.json
       /\ Target(last'.req) \notin DOMAIN users)
    => (last'.status = 404 /\ users' = users /\ seq' = seq)

\* C14: an update or a delete addressed to an id that no account has is
\* answered 404 and leaves the accounts table unchanged.
C14_MissingIdNotFound == [][C14_MissingStep]_vars

--------------------------------------------------------------------------
(* Roles and account updates (under SpecRoles) *)

NewDisplay == <<"z">>

RoleCreates ==
    { Body({"username", "password", "role"}, Bob, Pw, <<>>, "root"),
      Numeric(Body({"username", "password", "role"}, Bob, Pw, <<>>, ""),
              {"role"}) }

RoleUpdates ==
    { Body({"display_name"}, <<>>, <<>>, NewDisplay, ""),
      Body({"display_name", "password"}, <<>>, <<>>, NewDisplay, ""),
      Body({"role"}, <<>>, <<>>, <<>>, "root"),
      Numeric(Body({"role"}, <<>>, <<>>, <<>>, ""), {"role"}),
      Body({"role"}, <<>>, <<>>, <<>>, "user"),
      Body({"password"}, <<>>, Pw, <<>>, "") }

RoleRequests ==
    LET H == {Bearer(k) : k \in issued}
    IN  Send("POST", {P_users}, H, RoleCreates)
        \cup Send("PUT", {P_user(i) : i \in IdSegs}, H, RoleUpdates)

NextRoles ==
    \/ \E req \in RoleRequests, rnd \in Draws : Dispatch(req, rnd)
    \/ \E r \in inflight, salt \in FirstSalt : admin_create_user(r, salt)
    \/ \E r \in inflight, salt \in Salts : admin_update_user(r, salt)
    \/ \E req \in LoginRequests({"10.0.0.1"}, {AdminLogin}) :
          LoginArrive(req, MaxLogins)
    \/ \E r \in inflight, rnd \in Draws : LoginFinish(r, rnd)

SpecRoles == Init /\ [][NextRoles]_vars

\* The passwords, of those tried, that log an account with this hash in
Candidates == {DefaultPassword, Pw, Other, <<>>}
LogsIn(hash) == {pw \in Candidates : checkpw(pw, hash)}

\* What C15 asks of one step
C15_UpdateStep ==
    (last'.step = "handler" /\ last'.handler = "admin_update_user"
       /\ Target(last'.req) \in DOMAIN users
       /\ "role" \notin last'.req.body.has
       /\ Get(last'.req.body, "password", <<>>) = <<>>)
    => LET id == Target(last'.req)
       IN  /\ DOMAIN users' = DOMAIN users
           /\ users'[id].password_hash = users[id].password_hash
           /\ users'[id].role = users[id].role
           /\ LogsIn(users'[id].password_hash) = LogsIn(users[id].password_hash)
           /\ \A i \in DOMAIN users \ {id} : users'[i] = users[i]

\* C15: an update that names no role and whose password field is absent or
\* empty leaves the stored password hash and role of its target unchanged
\* (the same passwords log the account in before and after), and leaves
\* every other account as it is.
C15_UnrelatedUpdateKeepsPassword == [][C15_UpdateStep]_vars

\* C15 witness: an update with a display name and an empty password has
\* renamed an account that still logs in with a password
C15_Witness ==
    /\ last.step = "handler"
    /\ last.handler = "admin_update_user"
    /\ last.status = 200
    /\ last.req.body.has = {"display_name", "password"}
    /\ Target(last.req) \in DOMAIN users
    /\ users[Target(last.req)].display_name = NewDisplay
    /\ LogsIn(users[Target(last.req)].password_hash) # {}

Roles == {"admin", "user"}

\* The role a body asks for is not one of the two roles
UnknownRole(body) ==
    "role" \in body.has /\ ("role" \in body.nonstr \/ body.role \notin Roles)

C16_RoleStep ==
    /\ (last'.step = "handler" /\ last'.handler = "admin_create_user"
          /\ last'.status = 200 /\ UnknownRole(last'.req.body))
          => users'[last'.data.id].role = "user"
    /\ (last'.step = "handler" /\ last'.handler = "admin_update_user"
          /\ Target(last'.req) \in DOMAIN users /\ UnknownRole(last'.req.body))
          => users'[Target(last'.req)].role = users[Target(last'.req)].role

\* C16: every stored role is admin or user; a creation that asks for any
\* other role stores user, and an update that asks for any other role
\* leaves the stored role as it is.
C16_RolesValid ==
    /\ [](\A i \in DOMAIN users : users[i].role \in Roles)
    /\ [][C16_RoleStep]_vars

\* C16 witness: an account asked for with role root is stored with role user
C16_Witness ==
    /\ last.step = "handler"
    /\ last.handler = "admin_create_user"
    /\ last.status = 200
    /\ last.req.body.role = "root"
    /\ last.data.id \in DOMAIN users
    /\ users[last.data.id].role = "user"

--------------------------------------------------------------------------
(* Tokens of a demoted account (under SpecStale) *)

StaleRequests ==
    LET H == {Bearer(k) : k \in issued}
    IN  Send("PUT", {P_user("1")}, H,
             { Body({"role"}, <<>>, <<>>, <<>>, "user"),
               Body({"role"}, <<>>, <<>>, <<>>, "admin") })
        \cup Get_("GET", {P_users, P_me}, H)

NextStale ==
    \/ \E req \in StaleRequests, rnd \in Draws : Dispatch(req, rnd)
    \/ \E r \in inflight, salt \in FirstSalt : admin_update_user(r, salt)
    \/ \E r \in inflight, rnd \in Draws : auth_me(r, rnd)
    \/ \E req \in LoginRequests({"10.0.0.1"}, {AdminLogin}) :
          LoginArrive(req, MaxLogins)
    \/ \E r \in inflight, rnd \in Draws : LoginFinish(r, rnd)
    \/ \E d \in {TokenLifetime - 1, TokenLifetime} :
          Tick(d, MaxLifetimes * TokenLifetime)
    \/ \E salt \in FirstSalt : Restart(salt)

SpecStale == Init /\ [][NextStale]_vars

\* A token issued with role admin to an account whose stored role is user now
Stale(tok) ==
    /\ tok \in issued
    /\ tok.payload.role = "admin"
    /\ tok.payload.user_id \in DOMAIN users
    /\ users[tok.payload.user_id].role = "user"

\* The latest step is the middleware's decision on an admin route
AdminDecision ==
    /\ AdminOnly(last.req.path)
    /\ last.req.header.scheme = "Bearer "
    /\ last.step = "dispatch" \/ (last.step = "handler" /\ last.handler \in ReadOnly)

\* C17: a token issued with role admin to an account that has since been
\* demoted is still forwarded by the middleware on /api/admin/ routes at
\* every instant before its expiry, and is answered 401 from its expiry on.
C17_StaleTokenAdmitted ==
    (AdminDecision /\ Stale(last.req.header.token))
    => IF last.at < last.req.header.token.payload.exp
       THEN last.forward /\ last.status \notin {401, 403}
       ELSE ~last.forward /\ last.status = 401

\* C17 witness: the middleware has forwarded an admin request that carries
\* the token of a demoted account, one second before the token expires
C17_Witness ==
    /\ AdminDecision
    /\ Stale(last.req.header.token)
    /\ last.forward
    /\ last.at = last.req.header.token.payload.exp - 1

--------------------------------------------------------------------------
(* Storage failures during authentication (under SpecFaults) *)

NextFaults ==
    \/ \E f \in Stores : Fault(f)
    \/ \E f \in Stores : Repair(f)
    \/ \E req \in Get_("GET", {P_me, P_users}, {Bearer(k) : k \in issued}),
          rnd \in Draws : Dispatch(req, rnd)
    \/ \E r \in inflight, rnd \in Draws : auth_me(r, rnd)
    \/ \E req \in LoginRequests({"10.0.0.1"}, {AdminLogin, WrongLogin}) :
          LoginArrive(req, MaxLogins)
    \/ \E r \in inflight, rnd \in Draws : LoginFinish(r, rnd)

SpecFaults == Init /\ [][NextFaults]_vars

\* What C18 asks of one step
C18_FaultStep ==
    /\ (last'.step = "handler" /\ last'.handler = "auth_login"
          /\ PresentsCredentials(last'.req.body) /\ "db" \in faults)
          => last'.status >= 500
    /\ (last'.step \in {"dispatch", "handler"} /\ Protected(last'.req.path)
          /\ Verified(last'.req.header, now)
          /\ "secret" \in faults /\ secretFile.exists)
          => (last'.status # 401 /\ (~last'.forward => last'.status >= 500))

\* C18: a login handled while the users database cannot be read, and the
\* verification of a token this server issued (unexpired) while the secret
\* file cannot be read, are answered with a 500-class status, never 401.
C18_StorageFailureNotAuthFailure == [][C18_FaultStep]_vars

--------------------------------------------------------------------------
(* Broadcasts among accepts and disconnects (under SpecCast) *)

NextCast ==
    \/ \E req \in LoginRequests({"10.0.0.1"}, {AdminLogin}) :
          LoginArrive(req, MaxLogins)
    \/ \E r \in inflight, rnd \in Draws : LoginFinish(r, rnd)
    \/ \E c \in Conns, tok \in WsTokens(now), rnd \in Draws :
          ws[c].state \in {"idle", "refused"} /\ WsHandshake(c, tok, rnd)
    \/ \E c \in Conns : WsAccepted(c)
    \/ \E c \in Conns : WsAcceptFailed(c)
    \/ \E c \in Conns : WsDisconnect(c)
    \/ \E caller \in Callers : BroadcastStart(caller)
    \/ \E okay \in BOOLEAN : BroadcastSend(okay)
    \/ \E salt \in FirstSalt : Restart(salt)

SpecCast == Init /\ [][NextCast]_vars

\* What C19 asks of one step
C19_CastStep ==
    /\ bcast'.state # "aborted"
    /\ (bcast.state = "sending" /\ bcast'.state = "done")
          => (bcast'.snap \cap active) \subseteq bcast'.seen

\* C19: whatever accepts and disconnects happen while a broadcast is
\* suspended at a send, the broadcast is not aborted, and when it completes
\* it has attempted every connection it set out with that is still active.
C19_BroadcastSurvivesMutation == [][C19_CastStep]_vars

\* What C20 asks of one step
C20_CompletionAsStated ==
    (bcast.state = "sending" /\ bcast'.state = "done")
        => /\ active' \cap bcast'.dead = {}
           /\ (bcast'.ok \ bcast'.dead) \subseteq active'

\* C20 as stated: when a broadcast completes, no connection whose send
\* failed is in the active set and every connection whose send succeeded is.
C20_SucceededStillActive == [][C20_CompletionAsStated]_vars

\* What C20 asks of one step
C20_CompletionStep ==
    /\ (bcast.state = "sending" /\ bcast'.state = "done")
          => /\ active' \cap bcast'.dead = {}
             /\ (active \ active') \subseteq bcast'.dead
             /\ ((bcast'.ok \ bcast'.dead) \cap active) \subseteq active'
    /\ (bcast.state = "sending" /\ bcast.cur \in bcast'.dead
          /\ ~bcast.moved /\ ~size_changed(bcast, active)
          /\ active \ bcast.seen # {})
          => (bcast'.state = "sending" /\ bcast'.cur \in active \ bcast.seen)

\* C20: when a broadcast completes, no connection whose send failed is in
\* the active set, and the completion removes no connection but those; a
\* send that fails while the set is untouched and connections are left to
\* visit is followed by the next send.
C20_BroadcastPrunesFailed == [][C20_CompletionStep]_vars

C20_Witness ==
    /\ bcast.state = "done"
    /\ last.step = "broadcast"
    /\ bcast.dead # {}
    /\ bcast.ok \ bcast.dead # {}
    /\ active = bcast.snap \ bcast.dead
    /\ (bcast.ok \ bcast.dead) \subseteq active

--------------------------------------------------------------------------
(* What the middleware's decision leaves alone (under Spec) *)

\* What C21 asks of one step
C21_DecisionStep ==
    (last'.step = "dispatch"
       \/ (last'.step = "handler" /\ last'.handler \in ReadOnly))
    => /\ loginAttempts' = loginAttempts
       /\ active' = active
       /\ users' = users /\ seq' = seq
       /\ secretFile' = secretFile

\* C21: the middleware's decision on a request changes neither the
\* rate-limit map, nor the active set, nor the accounts table, nor the
\* persisted signing secret.
C21_DecisionChangesNothing == [][C21_DecisionStep]_vars

--------------------------------------------------------------------------
(* Logins whose handlers overlap (under SpecBurst) *)

NoFields == Body({"username"}, AdminName, <<>>, <<>>, "")

BurstLogins == {AdminLogin, WrongLogin, NoFields, BadJson}

\* The state after four logins with a wrong password from one address, each
\* answered before the next arrived, right after the first start
FourFailed ==
    LET ip == "10.0.0.1"
        req == Request("POST", P_login, NoHeader, WrongLogin, ip)
    IN  /\ bcryptBuild = "truncates"
        /\ faults = {}
        /\ bcast = NoCast
        /\ now = 0
        /\ secretFile = NoFile
        /\ \E salt \in FirstSalt :
             LET db == init_users_db(<<>>, 0, salt, 0)
             IN  users = db.users /\ seq = db.seq
        /\ loginAttempts = (ip :> <<LOGIN_MAX_ATTEMPTS - 1, 0>>)
        /\ active = {}
        /\ ws = [c \in Conns |-> NoWs]
        /\ inflight = {}
        /\ issued = {}
        /\ last = Outcome("handler", req, TRUE, "auth_login", 401, None, 0,
                          ErrorData("auth_login", 401))
        /\ usedSecrets = {}
        /\ log = [i \in Ips |->
                    IF i = ip
                    THEN [k \in 1..(LOGIN_MAX_ATTEMPTS - 1) |-> Attempt(0, 401, k)]
                    ELSE <<>>]

NextBurst ==
    \/ \E req \in LoginRequests(Ips, BurstLogins) :
          LoginArriveAmong(req, MaxLog, MaxPending)
    \/ \E r \in inflight, rnd \in Draws : LoginFinish(r, rnd)
    \/ \E d \in {LOGIN_WINDOW_SECONDS, LOGIN_WINDOW_SECONDS + 1} :
          Tick(d, MaxWindows * LOGIN_WINDOW_SECONDS + 1)
    \/ Fault("secret")
    \/ Repair("secret")

SpecBurst == FourFailed /\ [][NextBurst]_vars

\* The credentials of a login body are those of an account
Verifies(body) ==
    /\ body.json /\ body.nonstr = {}
    /\ \E i \in DOMAIN users :
          /\ users[i].username = strip(Get(body, "username", <<>>))
          /\ Get(body, "password", <<>>) # <<>>
          /\ checkpw(Get(body, "password", <<>>), users[i].password_hash)

\* The bucket of ip after one more attempt of ip was recorded at time t
Recorded(la, ip, t) ==
    IF ip \in DOMAIN la /\ t - la[ip][2] <= LOGIN_WINDOW_SECONDS
    THEN <<la[ip][1] + 1, la[ip][2]>>
    ELSE <<1, t>>

\* An admitted attempt is in its address's bucket, once, in the state in
\* which its handler is first suspended; no other step but the answer of a
\* login touches the map
C22_Recording ==
    /\ (last'.step = "arrive" /\ last'.status = 0)
          => /\ last'.req.ip \in DOMAIN loginAttempts'
             /\ loginAttempts'[last'.req.ip]
                   = Recorded(loginAttempts, last'.req.ip, now)
             /\ \E r \in inflight' \ inflight : r.req = last'.req
    /\ (last'.step \notin {"arrive", "handler"})
          => loginAttempts' = loginAttempts

\* What C22 as stated asks of one step
C22_AsStatedStep ==
    /\ C22_Recording
    /\ (last'.step = "handler" /\ last'.status # 200)
          => loginAttempts' = loginAttempts

\* C22 as stated: an admitted attempt is recorded once before its handler
\* is suspended, and only an attempt answered 200 removes the record.
C22_OnlySuccessRemoves == [][C22_AsStatedStep]_vars

\* What C22 asks of one step
C22_RecordStep ==
    /\ C22_Recording
    /\ (last'.step = "handler" /\ ~Verifies(last'.req.body))
          => loginAttempts' = loginAttempts
    /\ (last'.step = "handler" /\ last'.status \in {400, 401})
          => ~Verifies(last'.req.body)

\* C22: an admitted attempt is recorded once in its address's bucket before
\* its handler is suspended, whatever becomes of it, and no attempt but one
\* whose username and password were verified removes or lowers the record;
\* every attempt answered 400 or 401 is such an attempt.
C22_RecordedOnce == [][C22_RecordStep]_vars

\* C22 witness: an attempt ended in an exception while another one of the
\* same address is still suspended, and both are in the bucket
C22_Witness ==
    /\ last.step = "handler" /\ last.handler = "auth_login"
    /\ last.status = 500 /\ last.req.body = BadJson
    /\ \E r \in inflight : r.req.ip = last.req.ip
    /\ last.req.ip \in DOMAIN loginAttempts
    /\ loginAttempts[last.req.ip][1] >= 2

\* C23: in every reachable state the rate-limit map holds one bucket for
\* each of some addresses, and every bucket's count is between 1 and
\* LOGIN_MAX_ATTEMPTS.
C23_BucketsBounded ==
    /\ DOMAIN loginAttempts \subseteq Ips
    /\ \A ip \in DOMAIN loginAttempts :
          /\ loginAttempts[ip][1] >= 1
          /\ loginAttempts[ip][1] <= LOGIN_MAX_ATTEMPTS

\* C23 witness: an address at the limit has just been refused while logins
\* of both addresses are suspended, and both addresses have a bucket
C23_Witness ==
    /\ last.step = "arrive" /\ last.status = 429
    /\ loginAttempts[last.req.ip][1] = LOGIN_MAX_ATTEMPTS
    /\ DOMAIN loginAttempts = Ips
    /\ {r.req.ip : r \in inflight} = Ips

\* What C24 asks of one step
C24_ArriveStep ==
    (last'.step = "arrive" /\ last'.req.ip \in DOMAIN loginAttempts)
    => LET ip == last'.req.ip
           first == loginAttempts[ip][2]
       IN  /\ now - first > LOGIN_WINDOW_SECONDS
                => /\ last'.status = 0
                   /\ loginAttempts'[ip] = <<1, now>>
           /\ now - first <= LOGIN_WINDOW_SECONDS
                => /\ ip \in DOMAIN loginAttempts'
                   /\ loginAttempts'[ip][2] = first

\* C24: an attempt that arrives more than LOGIN_WINDOW_SECONDS after the
\* start of its address's window is admitted and replaces the bucket by
\* count 1 and a window that starts at the attempt, whatever the count was;
\* an attempt that arrives within the window leaves the window's start.
C24_WindowRestart == [][C24_ArriveStep]_vars

\* C24 witness: an address that was refused at count 5 has been admitted
\* after the window and its bucket restarted
C24_Witness ==
    /\ last.step = "arrive" /\ last.status = 0
    /\ now > LOGIN_WINDOW_SECONDS
    /\ loginAttempts[last.req.ip] = <<1, now>>
    /\ \E k \in 1..Len(log[last.req.ip]) : log[last.req.ip][k].status = 429

\* What C25 asks of one step
C25_RejectStep ==
    /\ (last'.step = "arrive" /\ last'.status = 429)
          => loginAttempts' = loginAttempts
    /\ (last'.step = "arrive" /\ last'.req.ip \in DOMAIN loginAttempts
          /\ loginAttempts[last'.req.ip][1] >= LOGIN_MAX_ATTEMPTS
          /\ now - loginAttempts[last'.req.ip][2] > LOGIN_WINDOW_SECONDS)
          => last'.status = 0

\* C25: a refused attempt leaves its address's bucket as it was, count and
\* window start, and an address at the limit is admitted on its first
\* attempt more than LOGIN_WINDOW_SECONDS after the window's start.
C25_RejectedLeavesBucket == [][C25_RejectStep]_vars

\* C25 witness: five attempts, a refused one in their window, then an
\* attempt admitted LOGIN_WINDOW_SECONDS + 1 after the first
C25_Witness ==
    \E ip \in Ips :
       /\ Len(log[ip]) = 7
       /\ log[ip][6].status = 429
       /\ log[ip][7].at = log[ip][1].at + LOGIN_WINDOW_SECONDS + 1
       /\ log[ip][7].status # 429
       /\ last.step = "arrive" /\ last.req.ip = ip

\* What C29 asks of one step
C29_LoginStep ==
    (last'.step \in {"arrive", "handler"} /\ last'.handler = "auth_login")
    => \A ip \in Ips \ {last'.req.ip} :
          /\ ip \in DOMAIN loginAttempts' <=> ip \in DOMAIN loginAttempts
          /\ ip \in DOMAIN loginAttempts
                => loginAttempts'[ip] = loginAttempts[ip]

\* C29: the arrival, the refusal and the answer of a login from one address
\* leave the bucket of every other address as it was.
C29_OtherAddressesUntouched == [][C29_LoginStep]_vars

\* C29 witness: a login from one address has succeeded and cleared its
\* bucket while the other address, at the limit, keeps its own
C29_Witness ==
    /\ last.step = "handler" /\ last.handler = "auth_login"
    /\ last.status = 200
    /\ last.req.ip \notin DOMAIN loginAttempts
    /\ \E ip \in DOMAIN loginAttempts :
          ip # last.req.ip /\ loginAttempts[ip][1] = LOGIN_MAX_ATTEMPTS

--------------------------------------------------------------------------
(* Account ids across deletions (under SpecIds) *)

CreateBobAdmin ==
    Body({"username", "password", "role"}, Bob, Pw, <<>>, "admin")

IdRequests ==
    LET H == {Bearer(k) : k \in issued}
    IN  Send("POST", {P_users}, H, {CreateBobAdmin})
        \cup Send("DELETE", {P_user(ToString(i)) : i \in 1..MaxSeq}, H, {NoBody})
        \cup Get_("GET", {P_me}, H)

NextIds ==
    \/ \E req \in IdRequests, rnd \in Draws : Dispatch(req, rnd)
    \/ \E r \in inflight, salt \in FirstSalt : admin_create_user(r, salt)
    \/ \E r \in inflight, rnd \in Draws : admin_delete_user(r, rnd)
    \/ \E r \in inflight, rnd \in Draws : auth_me(r, rnd)
    \/ \E req \in LoginRequests({"10.0.0.1"}, {AdminLogin, BobLogin}) :
          LoginArrive(req, MaxLogins)
    \/ \E r \in inflight, rnd \in Draws : LoginFinish(r, rnd)
    \/ \E salt \in FirstSalt : Restart(salt)

SpecIds == Init /\ [][NextIds]_vars

\* What C26 asks of one step
C26_IdStep ==
    /\ seq' >= seq
    /\ \A i \in DOMAIN users' \ DOMAIN users :
          /\ i > seq
          /\ \A j \in DOMAIN users : j < i
    /\ \A tok \in issued :
          tok.payload.user_id \notin DOMAIN users
             => tok.payload.user_id \notin DOMAIN users'
    /\ (last'.step = "handler" /\ last'.handler = "auth_me"
          /\ Verified(last'.req.header, now)
          /\ last'.req.header.token.payload.user_id \notin DOMAIN users)
          => last'.status = 404
    /\ (last'.step = "handler" /\ last'.handler = "admin_delete_user"
          /\ last'.status = 400)
          => Target(last'.req) = last'.req.header.token.payload.user_id

\* C26: every new account gets an id above every id assigned before, so the
\* id in a token whose account was deleted is the id of no later account:
\* /api/auth/me answers such a token 404, and the self-deletion check
\* matches only the token's own id.
C26_IdsNeverReused == [][C26_IdStep]_vars

\* C26 witness: the account of a token was deleted, an account of the same
\* username was created after it, and /api/auth/me has answered the token 404
C26_Witness ==
    /\ last.step = "handler" /\ last.handler = "auth_me"
    /\ last.status = 404
    /\ LET p == last.req.header.token.payload
       IN  /\ p.user_id \notin DOMAIN users
           /\ \E i \in DOMAIN users :
                 i > p.user_id /\ users[i].username = p.username

--------------------------------------------------------------------------
(* Accepted connections while their tokens go stale (under SpecLive) *)

LiveRequests ==
    LET H == {Bearer(k) : k \in issued}
    IN  Send("POST", {P_users}, H, {CreateBobAdmin})
        \cup Send("PUT", {P_user("2")}, H, {Body({"role"}, <<>>, <<>>, <<>>, "user")})
        \cup Send("DELETE", {P_user("2")}, H, {NoBody})

NextLive ==
    \/ \E req \in LoginRequests({"10.0.0.1"}, {AdminLogin, BobLogin}) :
          LoginArrive(req, MaxLogins)
    \/ \E r \in inflight, rnd \in Draws : LoginFinish(r, rnd)
    \/ \E req \in LiveRequests, rnd \in Draws : Dispatch(req, rnd)
    \/ \E r \in inflight, salt \in FirstSalt : admin_create_user(r, salt)
    \/ \E r \in inflight, salt \in FirstSalt : admin_update_user(r, salt)
    \/ \E r \in inflight, rnd \in Draws : admin_delete_user(r, rnd)
    \/ \E tok \in issued, rnd \in Draws :
          /\ tok.payload.username = Bob
          /\ ws["w1"].state = "idle"
          /\ WsHandshake("w1", tok, rnd)
    \/ WsAccepted("w1")
    \/ WsDisconnect("w1")
    \/ WsMessage("w1", "malformed", TRUE)
    \/ BroadcastStart("periodic_updates")
    \/ \E okay \in BOOLEAN : BroadcastSend(okay)
    \/ Tick(TokenLifetime, MaxLifetimes * TokenLifetime)

SpecLive == Init /\ [][NextLive]_vars

\* What C27 asks of one step
C27_StaleStep ==
    /\ (last'.step \in {"tick", "arrive", "dispatch", "handler"})
          => /\ active' = active
             /\ \A c \in active : ws'[c] = ws[c]
    /\ \A c \in active \ active' :
          \/ last'.step \in {"ws", "message"} /\ ws'[c].state = "closed"
          \/ /\ bcast.state = "sending" /\ bcast'.state = "done"
             /\ c \in bcast'.dead
    /\ \A c \in active :
          ws'[c].state # "open" => last'.step \in {"ws", "message"}

\* C27: the expiry of its token and the demotion or deletion of its account
\* neither remove an accepted connection from the active set nor close it;
\* it leaves the set only when its endpoint sees a disconnect or a bad
\* inbound message, or when a send of a broadcast to it fails.
C27_AcceptedStaysConnected == [][C27_StaleStep]_vars

\* C27 witness: a connection is open and active although its account has
\* been deleted and its token has just expired
C27_Witness ==
    /\ last.step = "tick"
    /\ \E c \in active :
          /\ ws[c].state = "open"
          /\ ws[c].token.payload.exp <= now
          /\ ws[c].token.payload.user_id \notin DOMAIN users

--------------------------------------------------------------------------
(* Inbound frames on accepted connections (under SpecFrames) *)

NextFrames ==
    \/ \E req \in LoginRequests({"10.0.0.1"}, {AdminLogin}) :
          LoginArrive(req, MaxLogins)
    \/ \E r \in inflight, rnd \in Draws : LoginFinish(r, rnd)
    \/ \E c \in Conns, tok \in issued, rnd \in Draws :
          ws[c].state = "idle" /\ WsHandshake(c, tok, rnd)
    \/ \E c \in Conns : WsAccepted(c)
    \/ \E c \in Conns : WsDisconnect(c)
    \/ \E c \in Conns, kind \in Frames, okay \in BOOLEAN :
          WsMessage(c, kind, okay)
    \/ \E caller \in Callers : BroadcastStart(caller)
    \/ \E okay \in BOOLEAN : BroadcastSend(okay)

SpecFrames == Init /\ [][NextFrames]_vars

\* What C28 asks of one step
C28_FrameStep ==
    (last'.step = "message")
    => LET c == last'.req.ip
       IN  /\ last'.handler = "ping"
                => \/ ws'[c].state = "open" /\ ws'[c].pongs = 1
                   \/ ws'[c].state = "closed" /\ ws'[c].pongs = 0
           /\ last'.handler # "ping" => ws'[c].pongs = 0
           /\ UNCHANGED <<users, seq, loginAttempts, secretFile, issued,
                          inflight>>
           /\ \A d \in Conns \ {c} :
                 /\ ws'[d] = ws[d]
                 /\ d \in active' <=> d \in active

\* C28: a ping on an accepted connection is answered by one pong (or, when
\* sending it fails, ends the receive loop), no other frame is answered,
\* no frame changes the accounts, the rate-limit map or another
\* connection's place in the active set, and a connection whose receive
\* loop has ended is not in the active set.
C28_FramesOnlyPong ==
    /\ [](\A c \in Conns : ws[c].state = "closed" => c \notin active)
    /\ [][C28_FrameStep]_vars

\* C28 witness: a ping has been answered with one pong while the other
\* connection is active as well
C28_Witness ==
    /\ last.step = "message" /\ last.handler = "ping"
    /\ ws[last.req.ip].pongs = 1
    /\ active = Conns

--------------------------------------------------------------------------
(* What /api/auth/me reports (under SpecMe) *)

MeRequests ==
    LET H == {Bearer(k) : k \in issued}
    IN  Send("POST", {P_users}, H, {CreateBobAdmin})
        \cup Send("PUT", {P_user("2")}, H,
                  { Body({"role", "display_name"}, <<>>, <<>>, NewDisplay, "user") })
        \cup Send("DELETE", {P_user("2")}, H, {NoBody})
        \cup Get_("GET", {P_me, P_users}, H)

NextMe ==
    \/ \E req \in MeRequests, rnd \in Draws : Dispatch(req, rnd)
    \/ \E r \in inflight, salt \in FirstSalt : admin_create_user(r, salt)
    \/ \E r \in inflight, salt \in FirstSalt : admin_update_user(r, salt)
    \/ \E r \in inflight, rnd \in Draws : admin_delete_user(r, rnd)
    \/ \E r \in inflight, rnd \in Draws : auth_me(r, rnd)
    \/ \E req \in LoginRequests({"10.0.0.1"}, {AdminLogin, BobLogin}) :
          LoginArrive(req, MaxLogins)
    \/ \E r \in inflight, rnd \in Draws : LoginFinish(r, rnd)

SpecMe == Init /\ [][NextMe]_vars

\* C30: /api/auth/me, given a verified token, reports the role, username
\* and display name stored now under the token's account id, and answers 404
\* for a request the middleware forwarded when that account is gone; the
\* middleware's admin gate goes by the role in the token.
C30_MeReportsStored ==
    LET p == last.req.header.token.payload
    IN  /\ (last.step = "handler" /\ last.handler = "auth_me"
              /\ Verified(last.req.header, now))
              => /\ last.forward
                 /\ IF p.user_id \in DOMAIN users
                    THEN /\ last.status = 200
                         /\ last.data.id = p.user_id
                         /\ last.data.role = users[p.user_id].role
                         /\ last.data.username = users[p.user_id].username
                         /\ last.data.display_name
                               = users[p.user_id].display_name
                    ELSE last.status = 404
        /\ (AdminDecision /\ Verified(last.req.header, now))
              => (last.forward <=> p.role = "admin")

\* C30 witness: /api/auth/me has reported role user and the new display
\* name for a token that carries role admin
C30_Witness ==
    /\ last.step = "handler" /\ last.handler = "auth_me"
    /\ last.status = 200
    /\ last.req.header.token.payload.role = "admin"
    /\ last.data.role = "user"
    /\ last.data.display_name = NewDisplay

==========================================================================
